---- MODULE Spec2Model ----
(***************************************************************************)
(* A model of the AI Assistant for Teachers: the intent classifier, the    *)
(* presentation content generator with its JSON extractor, the slide-count *)
(* normaliser and deck renderer, and the turn processing of main(), in its *)
(* two variants (streamlit1.py and streamlit_multilingual_voice_input.py). *)
(*                                                                         *)
(* Text whose characters the code inspects (queries, model responses) is a *)
(* sequence of Unicode code points; text the code only passes on is a      *)
(* TLA+ string.  A Python exception is the name of its class.              *)
(***************************************************************************)
EXTENDS Integers, Sequences, FiniteSets, TLC

VARIABLES
    variant,        \* "basic" (streamlit1.py) or "multilingual"
    fn,             \* the function a pure-function specification applies, or "session"
    arg,            \* its argument
    res             \* its result

purevars == <<fn, arg, res>>

----------------------------------------------------------------------------
(* Python str operations on code-point sequences.                          *)

Variants == {"basic", "multilingual"}

\* str.lower() on one character: the model's texts hold cased letters only
\* in ASCII (the Indic scripts have no case).
LowerChar(c) == IF c >= 65 /\ c <= 90 THEN c + 32 ELSE c

UpperChar(c) == IF c >= 97 /\ c <= 122 THEN c - 32 ELSE c

IsAlpha(c) == (c >= 65 /\ c <= 90) \/ (c >= 97 /\ c <= 122) \/ c >= 2304

\* str.isspace(): tab, newline, vertical tab, form feed, carriage return, space.
IsSpace(c) == c \in {9, 10, 11, 12, 13, 32}

LowerText(s) == [i \in 1..Len(s) |-> LowerChar(s[i])]

\* s.strip()
Strip(s) ==
    LET keep == {i \in 1..Len(s) : ~IsSpace(s[i])}
    IN  IF keep = {} THEN <<>>
        ELSE LET lo == CHOOSE i \in keep : \A j \in keep : i <= j
                 hi == CHOOSE i \in keep : \A j \in keep : j <= i
             IN  SubSeq(s, lo, hi)

\* the position of the first whitespace character of s, Len(s) + 1 if none
SpaceRunStart(s) ==
    LET sp == {i \in 1..Len(s) : IsSpace(s[i])}
    IN  IF sp = {} THEN Len(s) + 1 ELSE CHOOSE i \in sp : \A j \in sp : i <= j

\* s[p:p+len(w)] == w
HasAt(s, p, w) ==
    /\ p >= 1
    /\ p + Len(w) - 1 <= Len(s)
    /\ \A k \in 1..Len(w) : s[p + k - 1] = w[k]

\* w in s
Contains(w, s) == \E p \in 1..(Len(s) - Len(w) + 1) : HasAt(s, p, w)

----------------------------------------------------------------------------
(* Intent classification: classify_intent.                                 *)

\* ppt_keywords of streamlit1.py
ppt_keywords_basic == <<
    <<112, 112, 116>>,  \* 'ppt'
    <<112, 111, 119, 101, 114, 112, 111, 105, 110, 116>>,  \* 'powerpoint'
    <<112, 114, 101, 115, 101, 110, 116, 97, 116, 105, 111, 110>>,  \* 'presentation'
    <<115, 108, 105, 100, 101>>,  \* 'slide'
    <<115, 108, 105, 100, 101, 115>>,  \* 'slides'
    <<100, 101, 99, 107>>,  \* 'deck'
    <<99, 114, 101, 97, 116, 101, 32, 97, 32, 112, 114, 101, 115, 101, 110, 116, 97, 116, 105, 111, 110>>,  \* 'create a presentation'
    <<109, 97, 107, 101, 32, 97, 32, 112, 114, 101, 115, 101, 110, 116, 97, 116, 105, 111, 110>>,  \* 'make a presentation'
    <<103, 101, 110, 101, 114, 97, 116, 101, 32, 97, 32, 112, 114, 101, 115, 101, 110, 116, 97, 116, 105, 111, 110>>,  \* 'generate a presentation'
    <<99, 114, 101, 97, 116, 101, 32, 97, 32, 112, 112, 116>>,  \* 'create a ppt'
    <<109, 97, 107, 101, 32, 97, 32, 112, 112, 116>>,  \* 'make a ppt'
    <<103, 101, 110, 101, 114, 97, 116, 101, 32, 97, 32, 112, 112, 116>>,  \* 'generate a ppt'
    <<99, 114, 101, 97, 116, 101, 32, 115, 108, 105, 100, 101, 115>>,  \* 'create slides'
    <<109, 97, 107, 101, 32, 115, 108, 105, 100, 101, 115>>,  \* 'make slides'
    <<103, 101, 110, 101, 114, 97, 116, 101, 32, 115, 108, 105, 100, 101, 115>>  \* 'generate slides'
    >>

\* the keywords the multilingual variant adds (Hindi, Bengali, Tamil, Telugu)
ppt_keywords_indic == <<
    <<2346, 2381, 2352, 2375, 2332, 2375, 2306, 2335, 2375, 2358, 2344>>,  \* Hindi
    <<2346, 2366, 2357, 2352, 2346, 2377, 2311, 2306, 2335>>,  \* Hindi
    <<2346, 2368, 2346, 2368, 2335, 2368>>,  \* Hindi
    <<2360, 2381, 2354, 2366, 2311, 2337>>,  \* Hindi
    <<2474, 2494, 2451, 2479, 2492, 2494, 2480, 32, 2474, 2479, 2492, 2503, 2472, 2509, 2463>>,  \* Bengali
    <<2474, 2509, 2480, 2503, 2460, 2503, 2472, 2509, 2463, 2503, 2486, 2472>>,  \* Bengali
    <<2488, 2509, 2482, 2494, 2439, 2465>>,  \* Bengali
    <<2997, 3007, 2995, 2965, 3021, 2965, 2965, 3021, 2965, 3006, 2975, 3021, 2970, 3007>>,  \* Tamil
    <<2986, 2997, 2992, 3021, 2986, 3006, 2991, 3007, 2979, 3021, 2975, 3021>>,  \* Tamil
    <<3000, 3021, 2994, 3016, 2975, 3009>>,  \* Tamil
    <<3114, 3149, 3120, 3100, 3142, 3074, 3103, 3143, 3127, 3112, 3149>>,  \* Telugu
    <<3114, 3125, 3120, 3149, 32, 3114, 3134, 3119, 3135, 3074, 3103, 3149>>,  \* Telugu
    <<3128, 3149, 3122, 3144, 3105, 3149>>  \* Telugu
    >>

ppt_keywords(v) ==
    IF v = "basic" THEN ppt_keywords_basic
    ELSE ppt_keywords_basic \o ppt_keywords_indic

\* the literal "ppt_generation" the classification is searched for
PptGenerationText == <<112, 112, 116, 95, 103, 101, 110, 101, 114, 97, 116, 105, 111, 110>>

IntentValues == {"ppt_generation", "normal_query"}

(* The outcome of one chat-completion call of the remote client:           *)
(*   [kind |-> "raise", msg]   the client raised (network, auth, quota),   *)
(*   [kind |-> "no_choices"]   a response whose choices list is empty,     *)
(*   [kind |-> "no_content"]   a response whose message content is None,   *)
(*   [kind |-> "text", text]   a response carrying text.                   *)
CallFailed(r) == r.kind # "text"

\* the exception a failed call leaves in the try body around it: the client's
\* own, or that of reading choices[0] or of calling a str method on None
RemoteExcName(remote) ==
    CASE remote.kind = "raise"      -> "APIError"
      [] remote.kind = "no_choices" -> "IndexError"
      [] remote.kind = "no_content" -> "AttributeError"

\* a try body that compares the classification with the literal
ClassifyTryBodyExact(remote) ==
    IF CallFailed(remote) THEN [exc |-> RemoteExcName(remote)]
    ELSE    LET classification == LowerText(Strip(remote.text))
            IN  [exc |-> "none",
                 intent |-> IF classification = PptGenerationText
                            THEN "ppt_generation" ELSE "normal_query"]

\* the try body of classify_intent: the call, then
\* response.choices[0].message.content.strip().lower() and the substring test
ClassifyTryBody(remote) ==
    IF CallFailed(remote) THEN [exc |-> RemoteExcName(remote)]
    ELSE    LET classification == LowerText(Strip(remote.text))
            IN  [exc |-> "none",
                 intent |-> IF Contains(PptGenerationText, classification)
                            THEN "ppt_generation" ELSE "normal_query"]

\* except Exception: return "normal_query"
ClassifyExceptRaises(body) == [exc |-> body.exc, intent |-> "none"]

ClassifyExcept(body) == [exc |-> "none", intent |-> "normal_query"]

\* query.lower(), as the keyword loop sees it
QueryLowerNoFold(query) == query

QueryLower(query) == LowerText(query)

\* for keyword in ppt_keywords: if keyword in query_lower
\* (the multilingual variant tests keyword.lower())
KeywordMatches(v, query) ==
    LET query_lower == QueryLower(query)
        kws == ppt_keywords(v)
    IN  \E i \in 1..Len(kws) :
            Contains(IF v = "basic" THEN kws[i] ELSE LowerText(kws[i]), query_lower)

\* classify_intent(query, groq_client): the intent returned, the number of
\* remote calls issued and the exception raised to the caller ("none": none)
classify_intent(v, query, remote) ==
    IF KeywordMatches(v, query)
    THEN [intent |-> "ppt_generation", calls |-> 0, exc |-> "none"]
    ELSE LET body == ClassifyTryBody(remote)
             out  == IF body.exc # "none" THEN ClassifyExcept(body) ELSE body
         IN  [intent |-> out.intent, calls |-> 1, exc |-> out.exc]

----------------------------------------------------------------------------
(* JSON extraction: extract_json.                                          *)

OpenBrace == 123
CloseBrace == 125
Newline == 10

\* what '.' matches: any character under re.DOTALL, any but a newline without
DotMatches(c, dotall) == dotall \/ c # Newline

\* the ends j of a match of \{.*\} that starts at i
BraceSpanEnds(text, i, dotall) ==
    {j \in (i + 1)..Len(text) :
        /\ text[j] = CloseBrace
        /\ \A k \in (i + 1)..(j - 1) : DotMatches(text[k], dotall)}

\* the positions at which \{.*\} matches
BraceSpanStarts(text, dotall) ==
    {i \in 1..Len(text) : text[i] = OpenBrace /\ BraceSpanEnds(text, i, dotall) # {}}

Min(S) == CHOOSE x \in S : \A y \in S : x <= y
Max(S) == CHOOSE x \in S : \A y \in S : y <= x

\* Python's None against a str, as a value the model can compare
None == [is_none |-> TRUE, str |-> <<>>]
Str(s) == [is_none |-> FALSE, str |-> s]

\* a lazy '.*?' in place of the greedy '.*'
extract_json_lazy(text) ==
    LET starts == BraceSpanStarts(text, TRUE)
    IN  IF starts = {} THEN None
        ELSE LET i == Min(starts)
             IN  Str(SubSeq(text, i, Min(BraceSpanEnds(text, i, TRUE))))

\* the pattern without re.DOTALL
extract_json_no_dotall(text) ==
    LET starts == BraceSpanStarts(text, FALSE)
    IN  IF starts = {} THEN None
        ELSE LET i == Min(starts)
             IN  Str(SubSeq(text, i, Max(BraceSpanEnds(text, i, FALSE))))

\* an extractor that returns the empty string when nothing matches
extract_json_empty(text) ==
    LET starts == BraceSpanStarts(text, TRUE)
    IN  IF starts = {} THEN Str(<<>>)
        ELSE LET i == Min(starts)
             IN  Str(SubSeq(text, i, Max(BraceSpanEnds(text, i, TRUE))))

\* the pattern without its closing brace: from the first '{' to the end
extract_json_open_only(text) ==
    LET starts == {i \in 1..Len(text) : text[i] = OpenBrace}
    IN  IF starts = {} THEN None
        ELSE Str(SubSeq(text, Min(starts), Len(text)))

\* match = re.search(r'\{.*\}', text, re.DOTALL): the leftmost start, and from
\* it the longest match; return match.group(0) if match else None
extract_json(text) ==
    LET starts == BraceSpanStarts(text, TRUE)
    IN  IF starts = {} THEN None
        ELSE LET i == Min(starts)
             IN  Str(SubSeq(text, i, Max(BraceSpanEnds(text, i, TRUE))))

----------------------------------------------------------------------------
(* Content generation: generate_presentation_content.                      *)
(*                                                                         *)
(* A Python dict is a function on its keys (a record); `"k" in d` is       *)
(* "k" \in DOMAIN d.  The generator's response carries, beside its text,   *)
(* what json.loads makes of the span extract_json takes from it: a dict    *)
(* (the span starts with a brace, so nothing else parses) or a             *)
(* JSONDecodeError; json.loads is the standard library's.                  *)

NoJsonMessage == "No valid JSON found."

\* str(e) of the exception a failed call leaves in the try body
RemoteExcMessage(remote) ==
    CASE remote.kind = "raise"      -> remote.msg
      [] remote.kind = "no_choices" -> "list index out of range"
      [] remote.kind = "no_content" -> "'NoneType' object has no attribute 'strip'"

\* an except clause that tags the failure instead of returning str(e)
GenerateExceptTagged(msg) == [error |-> "RemoteCallError", message |-> msg]

\* except Exception as e: return {"error": str(e)}
GenerateExcept(msg) == [error |-> msg]

\* a generator without its try: a failed call raises to the caller
generate_presentation_content_unguarded(remote) ==
    IF CallFailed(remote)
    THEN [data |-> [raised |-> TRUE], calls |-> 1, exc |-> RemoteExcName(remote)]
    ELSE LET json_str == extract_json(Strip(remote.text))
         IN  [data  |-> IF json_str.is_none THEN [error |-> NoJsonMessage]
                        ELSE IF remote.loads.ok THEN remote.loads.value
                        ELSE GenerateExcept(remote.loads.msg),
              calls |-> 1, exc |-> "none"]

\* a generator that hands json.loads whatever extract_json returned: None
\* makes it raise a TypeError, which the except clause turns into its text
generate_presentation_content_no_guard(remote) ==
    LET data ==
            IF CallFailed(remote) THEN GenerateExcept(RemoteExcMessage(remote))
            ELSE LET json_str == extract_json(Strip(remote.text))
                 IN  IF json_str.is_none
                     THEN GenerateExcept(
                            "the JSON object must be str, bytes or bytearray, not NoneType")
                     ELSE IF remote.loads.ok THEN remote.loads.value
                     ELSE GenerateExcept(remote.loads.msg)
    IN  [data |-> data, calls |-> 1, exc |-> "none"]

\* a generator that issues the call a second time when the first fails
generate_presentation_content_retrying(remote) ==
    LET data ==
            IF CallFailed(remote) THEN GenerateExcept(RemoteExcMessage(remote))
            ELSE LET json_str == extract_json(Strip(remote.text))
                 IN  IF json_str.is_none THEN [error |-> NoJsonMessage]
                     ELSE IF remote.loads.ok THEN remote.loads.value
                     ELSE GenerateExcept(remote.loads.msg)
    IN  [data |-> data, calls |-> IF CallFailed(remote) THEN 2 ELSE 1, exc |-> "none"]

\* generate_presentation_content(prompt, client): the dict returned, the
\* number of remote calls issued and the exception raised to the caller; the
\* prompt goes to the remote model only
generate_presentation_content(remote) ==
    LET data ==
            IF CallFailed(remote) THEN GenerateExcept(RemoteExcMessage(remote))
            ELSE LET output   == Strip(remote.text)
                     json_str == extract_json(output)
                 IN  IF json_str.is_none THEN [error |-> NoJsonMessage]
                     ELSE IF remote.loads.ok THEN remote.loads.value
                     ELSE GenerateExcept(remote.loads.msg)
    IN  [data |-> data, calls |-> 1, exc |-> "none"]

----------------------------------------------------------------------------
(* Deck creation: create_powerpoint.                                       *)

RequiredSlides == 6

\* a filler with three points
FillerSlideThreePoints ==
    [title  |-> "Additional Information",
     type   |-> "bullet_points",
     points |-> <<"Key point about the topic", "Supporting information",
                  "Additional detail">>]

\* a filler of another type
FillerSlideContent ==
    [title  |-> "Additional Information",
     type   |-> "content_slide",
     points |-> <<"Key point about the topic", "Supporting information",
                  "Additional detail", "Final point">>]

\* the filler slide the padding loop appends
FillerSlide ==
    [title  |-> "Additional Information",
     type   |-> "bullet_points",
     points |-> <<"Key point about the topic", "Supporting information",
                  "Additional detail", "Final point">>]

\* an `if` in place of the `while`: one filler for each call
PadSlidesOnce(slides) ==
    IF Len(slides) < RequiredSlides THEN Append(slides, FillerSlide) ELSE slides

RECURSIVE PadSlides(_)
\* while len(slides) < 6: slides.append(filler)
PadSlides(slides) ==
    IF Len(slides) < RequiredSlides THEN PadSlides(Append(slides, FillerSlide))
    ELSE slides

\* a normaliser that pads and never truncates
NormalizeSlidesNoTruncate(slides) ==
    IF Len(slides) < RequiredSlides THEN PadSlides(slides) ELSE slides

\* "Ensure we have exactly 6 slides": pad, or truncate to slides[:6]
NormalizeSlides(slides) ==
    IF Len(slides) = RequiredSlides THEN slides
    ELSE IF Len(slides) < RequiredSlides THEN PadSlides(slides)
    ELSE SubSeq(slides, 1, RequiredSlides)

\* prs.slide_layouts[n] chosen by the slide's type
LayoutOf(type) ==
    CASE type = "title_slide"      -> 0
      [] type = "section_header"   -> 2
      [] type = "bullet_points"    -> 1
      [] type = "conclusion_slide" -> 1
      [] type = "content_slide"    -> 5
      [] OTHER                     -> 1

\* len(slide.placeholders) in the default template: title and subtitle (0),
\* title and content (1), title and text (2), title only (5)
PlaceholderCount(layout) == IF layout = 5 THEN 1 ELSE 2

\* slide_data.get(key, default)
Get(d, key, default) == IF key \in DOMAIN d THEN d[key] ELSE default

\* a paragraph: the parts of its text (one per f-string part), its role in the
\* theme and its font size in points
Para(parts, role, size) == [text |-> parts, role |-> role, size |-> size]

\* SlideBody with the title slide's text taken from "subtitle" alone
SlideBodySubtitleOnly(slide_data, layout) ==
    CASE slide_data.type = "title_slide" ->
            IF PlaceholderCount(layout) > 1
            THEN <<Para(<<Get(slide_data, "subtitle", "")>>,
                        "subtitle", 24)>>
            ELSE <<>>
      [] slide_data.type = "bullet_points" ->
            IF PlaceholderCount(layout) > 1
            THEN [i \in 1..Len(slide_data.points) |->
                     Para(<<slide_data.points[i]>>, "bullet", 20)]
            ELSE <<>>
      [] slide_data.type = "content_slide" ->
            LET paragraphs == Get(slide_data, "paragraphs", <<>>)
            IN  [i \in 1..Len(paragraphs) |->
                    Para(<<paragraphs[i]>>, IF i > 1 THEN "body_spaced" ELSE "body", 20)]
      [] slide_data.type = "section_header" ->
            IF "content" \in DOMAIN slide_data /\ PlaceholderCount(layout) > 1
            THEN <<Para(<<slide_data.content>>, "section", 28)>>
            ELSE <<>>
      [] slide_data.type = "conclusion_slide" ->
            IF PlaceholderCount(layout) > 1
            THEN <<Para(<<Get(slide_data, "content", "")>>, "conclusion", 22)>>
                 \o (IF "key_takeaway" \in DOMAIN slide_data
                     THEN <<Para(<<"">>, "spacer", 0),
                            Para(<<"Key Takeaway: ", slide_data.key_takeaway>>,
                                 "key_takeaway", 24)>>
                     ELSE <<>>)
            ELSE <<>>
      [] OTHER -> <<>>

\* SlideBody with the conclusion slide's spacer written before the test of
\* "key_takeaway"
SlideBodySpacerAlways(slide_data, layout) ==
    CASE slide_data.type = "title_slide" ->
            IF PlaceholderCount(layout) > 1
            THEN <<Para(<<Get(slide_data, "subtitle", Get(slide_data, "content", ""))>>,
                        "subtitle", 24)>>
            ELSE <<>>
      [] slide_data.type = "bullet_points" ->
            IF PlaceholderCount(layout) > 1
            THEN [i \in 1..Len(slide_data.points) |->
                     Para(<<slide_data.points[i]>>, "bullet", 20)]
            ELSE <<>>
      [] slide_data.type = "content_slide" ->
            LET paragraphs == Get(slide_data, "paragraphs", <<>>)
            IN  [i \in 1..Len(paragraphs) |->
                    Para(<<paragraphs[i]>>, IF i > 1 THEN "body_spaced" ELSE "body", 20)]
      [] slide_data.type = "section_header" ->
            IF "content" \in DOMAIN slide_data /\ PlaceholderCount(layout) > 1
            THEN <<Para(<<slide_data.content>>, "section", 28)>>
            ELSE <<>>
      [] slide_data.type = "conclusion_slide" ->
            IF PlaceholderCount(layout) > 1
            THEN <<Para(<<Get(slide_data, "content", "")>>, "conclusion", 22),
                   Para(<<"">>, "spacer", 0)>>
                 \o (IF "key_takeaway" \in DOMAIN slide_data
                     THEN <<Para(<<"Key Takeaway: ", slide_data.key_takeaway>>,
                                 "key_takeaway", 24)>>
                     ELSE <<>>)
            ELSE <<>>
      [] OTHER -> <<>>

\* the paragraphs the type's branch writes into the slide's body
SlideBody(slide_data, layout) ==
    CASE slide_data.type = "title_slide" ->
            IF PlaceholderCount(layout) > 1
            THEN <<Para(<<Get(slide_data, "subtitle", Get(slide_data, "content", ""))>>,
                        "subtitle", 24)>>
            ELSE <<>>
      [] slide_data.type = "bullet_points" ->
            IF PlaceholderCount(layout) > 1
            THEN [i \in 1..Len(slide_data.points) |->
                     Para(<<slide_data.points[i]>>, "bullet", 20)]
            ELSE <<>>
      [] slide_data.type = "content_slide" ->
            LET paragraphs == Get(slide_data, "paragraphs", <<>>)
            IN  [i \in 1..Len(paragraphs) |->
                    Para(<<paragraphs[i]>>, IF i > 1 THEN "body_spaced" ELSE "body", 20)]
      [] slide_data.type = "section_header" ->
            IF "content" \in DOMAIN slide_data /\ PlaceholderCount(layout) > 1
            THEN <<Para(<<slide_data.content>>, "section", 28)>>
            ELSE <<>>
      [] slide_data.type = "conclusion_slide" ->
            IF PlaceholderCount(layout) > 1
            THEN <<Para(<<Get(slide_data, "content", "")>>, "conclusion", 22)>>
                 \o (IF "key_takeaway" \in DOMAIN slide_data
                     THEN <<Para(<<"">>, "spacer", 0),
                            Para(<<"Key Takeaway: ", slide_data.key_takeaway>>,
                                 "key_takeaway", 24)>>
                     ELSE <<>>)
            ELSE <<>>
      [] OTHER -> <<>>

\* one pass of the loop over presentation_data["slides"]: the slide added to
\* the deck, or the KeyError of a subscript on a missing key
RenderSlide(slide_data) ==
    IF "type" \notin DOMAIN slide_data THEN [exc |-> "KeyError"]
    ELSE LET layout == LayoutOf(slide_data.type)
         IN  IF "title" \notin DOMAIN slide_data THEN [exc |-> "KeyError"]
             ELSE IF slide_data.type = "bullet_points" /\ PlaceholderCount(layout) > 1
                     /\ "points" \notin DOMAIN slide_data
             THEN [exc |-> "KeyError"]
             ELSE [exc    |-> "none",
                   layout |-> layout,
                   title  |-> Para(<<slide_data.title>>, "title", 32),
                   body   |-> SlideBody(slide_data, layout)]

\* the slides rendered before the loop ends or a pass raises
RenderedPrefix(slides) ==
    LET bad == {i \in 1..Len(slides) : RenderSlide(slides[i]).exc # "none"}
        n   == IF bad = {} THEN Len(slides) ELSE Min(bad) - 1
    IN  [i \in 1..n |-> RenderSlide(slides[i])]

\* create_powerpoint(presentation_data, output_path): the exception raised
\* ("none": it returned), presentation_data as the call leaves it, the slides
\* added to the deck, and whether prs.save wrote the file
create_powerpoint(presentation_data) ==
    IF "slides" \notin DOMAIN presentation_data
    THEN [exc |-> "KeyError", data |-> presentation_data, rendered |-> <<>>,
          saved |-> FALSE]
    ELSE LET slides   == NormalizeSlides(presentation_data.slides)
             data     == [presentation_data EXCEPT !.slides = slides]
             rendered == RenderedPrefix(slides)
         IN  IF Len(rendered) < Len(slides)
             THEN [exc |-> "KeyError", data |-> data, rendered |-> rendered,
                   saved |-> FALSE]
             ELSE [exc |-> "none", data |-> data, rendered |-> rendered,
                   saved |-> TRUE]

----------------------------------------------------------------------------
\* Topic extraction in process_ppt_request:
\*   re.search(r'(?:generate|create|make|prepare)(?:\s+a)?\s+
\*     (?:ppt|powerpoint|presentation|slides)
\*     (?:\s+on|about|for|covering)?\s+(.*)', user_input.lower())
\* A position is an index into the text; 0 says "no match".

TopicVerbs == <<
    <<103, 101, 110, 101, 114, 97, 116, 101>>,  \* 'generate'
    <<99, 114, 101, 97, 116, 101>>,             \* 'create'
    <<109, 97, 107, 101>>,                      \* 'make'
    <<112, 114, 101, 112, 97, 114, 101>> >>     \* 'prepare'

TopicNouns == <<
    <<112, 112, 116>>,                                              \* 'ppt'
    <<112, 111, 119, 101, 114, 112, 111, 105, 110, 116>>,           \* 'powerpoint'
    <<112, 114, 101, 115, 101, 110, 116, 97, 116, 105, 111, 110>>,  \* 'presentation'
    <<115, 108, 105, 100, 101, 115>> >>                             \* 'slides'

\* the alternatives of the optional group that follow the noun directly
TopicLinks == <<
    <<97, 98, 111, 117, 116>>,                      \* 'about'
    <<102, 111, 114>>,                              \* 'for'
    <<99, 111, 118, 101, 114, 105, 110, 103>> >>    \* 'covering'

TopicOn == <<111, 110>>  \* 'on'
LetterA == <<97>>        \* 'a'

\* the first non-zero entry of a sequence of positions, 0 if there is none
FirstMatch(ps) ==
    LET hits == {i \in 1..Len(ps) : ps[i] # 0}
    IN  IF hits = {} THEN 0 ELSE ps[Min(hits)]

\* the position after the longest run of whitespace that starts at p
SpaceRunEnd(s, p) ==
    LET stops == {q \in p..Len(s) : ~IsSpace(s[q])}
    IN  IF stops = {} THEN Len(s) + 1 ELSE Min(stops)

\* \s+ at p, greedy: the position after it, or 0
Spaces(s, p) == IF p >= 1 /\ p <= Len(s) /\ IsSpace(s[p]) THEN SpaceRunEnd(s, p) ELSE 0

\* a literal at p: the position after it, or 0
Literal(s, p, w) == IF p # 0 /\ HasAt(s, p, w) THEN p + Len(w) ELSE 0

\* \s+(.*) at p: where group 1 starts, or 0
TopicTail(s, p) == IF p = 0 THEN 0 ELSE Spaces(s, p)

\* (?:\s+on|about|for|covering)?\s+(.*) at p: the group is tried first, its
\* alternatives in order, and skipped when none of them leads to a match
TopicAfterNoun(s, p) ==
    IF p = 0 THEN 0
    ELSE FirstMatch(
            <<TopicTail(s, Literal(s, Spaces(s, p), TopicOn))>>
            \o [i \in 1..Len(TopicLinks) |-> TopicTail(s, Literal(s, p, TopicLinks[i]))]
            \o <<TopicTail(s, p)>>)

\* (?:ppt|powerpoint|presentation|slides)... at p
TopicFromNoun(s, p) ==
    IF p = 0 THEN 0
    ELSE FirstMatch([i \in 1..Len(TopicNouns) |->
                        TopicAfterNoun(s, Literal(s, p, TopicNouns[i]))])

\* (?:\s+a)?\s+... at p: with the article first, then without
TopicAfterVerb(s, p) ==
    IF p = 0 THEN 0
    ELSE FirstMatch(
            <<TopicFromNoun(s, Spaces(s, Literal(s, Spaces(s, p), LetterA))),
              TopicFromNoun(s, Spaces(s, p))>>)

\* the whole pattern anchored at p
TopicMatchAt(s, p) ==
    FirstMatch([i \in 1..Len(TopicVerbs) |->
                   TopicAfterVerb(s, Literal(s, p, TopicVerbs[i]))])

\* .* stops before the first newline
LineEnd(s, p) ==
    LET nls == {q \in p..Len(s) : s[q] = Newline}
    IN  IF nls = {} THEN Len(s) + 1 ELSE Min(nls)

\* topic_match = re.search(...); topic_match.group(1) if topic_match else user_input
ExtractTopic(user_input) ==
    LET s      == LowerText(user_input)
        starts == {p \in 1..Len(s) : TopicMatchAt(s, p) # 0}
    IN  IF starts = {} THEN user_input
        ELSE LET g == TopicMatchAt(s, Min(starts))
             IN  SubSeq(s, g, LineEnd(s, g) - 1)

\* str.capitalize(): the first character upper-cased, the rest lower-cased
Capitalize(s) ==
    [i \in 1..Len(s) |-> IF i = 1 THEN UpperChar(s[i]) ELSE LowerChar(s[i])]

\* "Format the topic": topic.strip().capitalize() in streamlit1.py;
\* topic.strip(), then topic[0].isalpha() and topic[0].upper() + topic[1:]
\* in the multilingual variant, where topic[0] of an empty topic raises
FormatTopic(v, topic) ==
    LET t == Strip(topic)
    IN  IF v = "basic" THEN [exc |-> "none", topic |-> Capitalize(t)]
        ELSE IF t = <<>> THEN [exc |-> "IndexError", topic |-> t]
        ELSE [exc   |-> "none",
              topic |-> IF IsAlpha(t[1])
                        THEN [i \in 1..Len(t) |-> IF i = 1 THEN UpperChar(t[i]) ELSE t[i]]
                        ELSE t]

----------------------------------------------------------------------------
(* Language detection (multilingual variant): detect_language.             *)

\* the keys of INDIAN_LANGUAGES, in the order of the dict
INDIAN_LANGUAGES == <<"English", "Hindi", "Bengali", "Tamil", "Telugu", "Marathi",
                      "Gujarati", "Kannada", "Malayalam", "Punjabi", "Urdu">>

\* the characters of each key
LanguageText(lang) ==
    CASE lang = "English" -> <<69, 110, 103, 108, 105, 115, 104>>
      [] lang = "Hindi" -> <<72, 105, 110, 100, 105>>
      [] lang = "Bengali" -> <<66, 101, 110, 103, 97, 108, 105>>
      [] lang = "Tamil" -> <<84, 97, 109, 105, 108>>
      [] lang = "Telugu" -> <<84, 101, 108, 117, 103, 117>>
      [] lang = "Marathi" -> <<77, 97, 114, 97, 116, 104, 105>>
      [] lang = "Gujarati" -> <<71, 117, 106, 97, 114, 97, 116, 105>>
      [] lang = "Kannada" -> <<75, 97, 110, 110, 97, 100, 97>>
      [] lang = "Malayalam" -> <<77, 97, 108, 97, 121, 97, 108, 97, 109>>
      [] lang = "Punjabi" -> <<80, 117, 110, 106, 97, 98, 105>>
      [] lang = "Urdu" -> <<85, 114, 100, 117>>

\* text.split()[0]: the first run of non-whitespace characters
FirstWord(s) ==
    LET t == Strip(s)
    IN  SubSeq(t, 1, SpaceRunStart(t) - 1)

\* s.strip('.,:"\''): the characters 46 44 58 34 39 stripped from both ends
StripPunctuation(s) ==
    LET keep == {i \in 1..Len(s) : s[i] \notin {46, 44, 58, 34, 39}}
    IN  IF keep = {} THEN <<>> ELSE SubSeq(s, Min(keep), Max(keep))

\* the try body of detect_language
DetectTryBody(remote) ==
    IF CallFailed(remote) THEN [exc |-> RemoteExcName(remote)]
    ELSE LET stripped == Strip(remote.text)
         IN  IF stripped = <<>> THEN [exc |-> "IndexError"]
             ELSE LET detected_language == StripPunctuation(FirstWord(stripped))
                      exact == {i \in 1..Len(INDIAN_LANGUAGES) :
                                   LanguageText(INDIAN_LANGUAGES[i]) = detected_language}
                      fold  == {i \in 1..Len(INDIAN_LANGUAGES) :
                                   LowerText(LanguageText(INDIAN_LANGUAGES[i]))
                                       = LowerText(detected_language)}
                  IN  [exc  |-> "none",
                       lang |-> IF exact # {} THEN INDIAN_LANGUAGES[Min(exact)]
                                ELSE IF fold # {} THEN INDIAN_LANGUAGES[Min(fold)]
                                ELSE "English"]

\* detect_language with the fallback of its docstring, the code "en"
detect_language_code(remote) ==
    LET body == DetectTryBody(remote)
    IN  IF body.exc # "none"
        THEN [lang |-> "en", calls |-> 1, error_shown |-> TRUE]
        ELSE [lang |-> body.lang, calls |-> 1, error_shown |-> FALSE]

\* detect_language(text, groq_client): the language returned, the remote calls
\* issued and whether st.error showed the failure
detect_language(remote) ==
    LET body == DetectTryBody(remote)
    IN  IF body.exc # "none"
        THEN [lang |-> "English", calls |-> 1, error_shown |-> TRUE]
        ELSE [lang |-> body.lang, calls |-> 1, error_shown |-> FALSE]


----------------------------------------------------------------------------
(* Chat and speech: process_chat_query, generate_speech, and the           *)
(* recogniser of the voice input.                                          *)

UserContent(query) == [kind |-> "user_text", text |-> query]

\* the role and content of each stored message: messages.copy() in
\* streamlit1.py, the copy without the language field in the other variant
ApiMessages(msgs) ==
    [i \in 1..Len(msgs) |-> [role |-> msgs[i].role, content |-> msgs[i].content]]

\* an except clause that lets the failure through
ChatExceptRaises(remote) ==
    [kind |-> "raised", exc |-> RemoteExcName(remote)]

\* except Exception as e: return f"Error generating response: {str(e)}"
ChatExcept(remote) ==
    [kind |-> "chat_error", error |-> RemoteExcMessage(remote)]

\* process_chat_query(query, groq_client): the text returned (the content of
\* the response, None when the response has none, or the error text), the
\* message list sent to the model, the remote calls issued, the exception raised
process_chat_query(msgs, query, remote) ==
    LET copied   == ApiMessages(msgs)
        messages == IF copied = <<>>
                       \/ copied[Len(copied)].role # "user"
                       \/ copied[Len(copied)].content # UserContent(query)
                    THEN Append(copied, [role |-> "user", content |-> UserContent(query)])
                    ELSE copied
        out      == CASE remote.kind = "text" -> [kind |-> "chat", answer |-> remote.text]
                      [] remote.kind = "no_content" -> [kind |-> "chat_none"]
                      [] OTHER -> ChatExcept(remote)
    IN  [reply |-> IF out.kind = "raised" THEN [kind |-> "none"] ELSE out,
         sent  |-> messages,
         calls |-> 1,
         exc   |-> IF out.kind = "raised" THEN out.exc ELSE "none"]

\* a generate_speech without its try
generate_speech_unguarded(tts_ok) ==
    [audio |-> tts_ok, calls |-> 1, error_shown |-> FALSE,
     exc |-> IF tts_ok THEN "none" ELSE "gTTSError"]

\* generate_speech(text, lang): whether an audio file came back (None if not),
\* the remote calls issued, whether st.error showed the failure
generate_speech(tts_ok) ==
    [audio |-> tts_ok, calls |-> 1, error_shown |-> ~tts_ok, exc |-> "none"]

\* the outcomes of sr.Microphone(), recognizer.listen(source, timeout=5) and
\* recognizer.recognize_google(audio): an exception, or the recognised text
SpeechFailures == {"OSError", "WaitTimeoutError", "UnknownValueError"}

----------------------------------------------------------------------------
(* The replies of process_ppt_request.                                     *)

\* f"... Error generating presentation: {presentation_data['error']}"
PptErrorReply(data) == [kind |-> "ppt_error", error |-> data.error]

\* f"... Your 6-slide presentation on '{topic}' is ready for download! ..."
PptReadyReply(topic) == [kind |-> "ppt_ready", topic |-> topic]

NoReply == [kind |-> "none"]

----------------------------------------------------------------------------
(* The inputs the specifications draw from.                                *)

MaxFragments == 2   \* fragments in a query of the classifier's specification
MaxTextLen == 5     \* characters in a text of the extractor's specification
MaxSlides == 10     \* slides in a deck the remote model returns
MaxHistory == 4     \* messages the session's history may hold

JsonErrorMessage ==
    "Expecting property name enclosed in double quotes: line 1 column 2 (char 1)"

\* str(e) of an exception of the remote client
RemoteMessages == {"Connection error.", NoJsonMessage, JsonErrorMessage}

Raise(msg) == [kind |-> "raise", msg |-> msg]
Text(text) == [kind |-> "text", text |-> text]

RemoteFailures ==
    {Raise(m) : m \in RemoteMessages} \cup {[kind |-> "no_choices"], [kind |-> "no_content"]}

\* answers of the remote model to the classification prompt
ClassifyTexts == {
    <<112, 112, 116, 95, 103, 101, 110, 101, 114, 97, 116, 105, 111, 110>>,  \* 'ppt_generation'
    <<80, 80, 84, 95, 71, 101, 110, 101, 114, 97, 116, 105, 111, 110>>,      \* 'PPT_Generation'
    <<32, 32, 112, 112, 116, 95, 103, 101, 110, 101, 114, 97, 116, 105, 111, 110, 10>>,  \* '  ppt_generation\n'
    <<84, 104, 105, 115, 32, 105, 115, 32, 110, 111, 116, 32, 112, 112, 116, 95, 103, 101,
      110, 101, 114, 97, 116, 105, 111, 110, 46>>,                           \* 'This is not ppt_generation.'
    <<110, 111, 114, 109, 97, 108, 95, 113, 117, 101, 114, 121>>,            \* 'normal_query'
    <<112, 112, 116, 32, 103, 101, 110, 101, 114, 97, 116, 105, 111, 110>>,  \* 'ppt generation'
    <<>> }

ClassifyRemotes ==
    {Raise("Connection error."), [kind |-> "no_choices"], [kind |-> "no_content"]}
    \cup {Text(t) : t \in ClassifyTexts}

\* pieces of queries: keywords in mixed case, parts of keywords, a keyword of
\* each script of the list, a Gujarati word for "presentation" (no keyword of
\* the list), and words that are no keyword
Fragments == {
    <<80, 80, 84>>,                 \* 'PPT'
    <<112, 112>>,                   \* 'pp'
    <<116>>,                        \* 't'
    <<83, 108, 105, 100, 101>>,     \* 'Slide'
    <<100, 101, 99, 107>>,          \* 'deck'
    <<32>>,                         \* ' '
    <<104, 101, 108, 108, 111>>,    \* 'hello'
    <<109, 97, 107, 101>>,          \* 'make'
    <<2360, 2381, 2354, 2366, 2311, 2337>>,                                   \* Hindi 'slide'
    <<2488, 2509, 2482, 2494, 2439, 2465>>,                                   \* Bengali 'slide'
    <<3000, 3021, 2994, 3016, 2975, 3009>>,                                   \* Tamil 'slide'
    <<3114, 3125, 3120, 3149, 32, 3114, 3134, 3119, 3135, 3074, 3103, 3149>>, \* Telugu 'power point'
    <<2730, 2765, 2736, 2759, 2717, 2728, 2765, 2719, 2759, 2742, 2728>> }    \* Gujarati 'presentation'

RECURSIVE Concats(_)
\* the texts made of at most n fragments
Concats(n) ==
    IF n = 0 THEN {<<>>}
    ELSE LET shorter == Concats(n - 1)
         IN  shorter \cup {s \o f : s \in shorter, f \in Fragments}

\* every keyword of the longer list, alone and in upper case inside other text
KeywordQueries ==
    LET kws == ppt_keywords("multilingual")
    IN  {kws[i] : i \in 1..Len(kws)}
        \cup {<<120>> \o [k \in 1..Len(kws[i]) |-> UpperChar(kws[i][k])] \o <<121>> :
                i \in 1..Len(kws)}

ClassifyQueries == Concats(MaxFragments) \cup KeywordQueries

\* the texts of at most n characters over { } a and newline
RECURSIVE BraceTexts(_)
BraceTexts(n) ==
    IF n = 0 THEN {<<>>}
    ELSE LET shorter == BraceTexts(n - 1)
         IN  shorter \cup {Append(s, c) : s \in shorter, c \in {OpenBrace, CloseBrace, 97, Newline}}

\* the slides the generator's prompt asks for, in its order
PromptSlides == <<
    [title |-> "Title", type |-> "title_slide", content |-> "Main", subtitle |-> "Sub"],
    [title |-> "Intro", type |-> "bullet_points", points |-> <<"i1", "i2", "i3", "i4">>],
    [title |-> "Concept", type |-> "section_header", content |-> "Section"],
    [title |-> "Content", type |-> "content_slide", paragraphs |-> <<"para1", "para2">>],
    [title |-> "Details", type |-> "bullet_points", points |-> <<"d1", "d2", "d3", "d4">>],
    [title |-> "Conclusion", type |-> "conclusion_slide", content |-> "Summary",
     key_takeaway |-> "Takeaway"] >>

ExtraTitles == <<"Extra 1", "Extra 2", "Extra 3", "Extra 4", "Extra 5", "Extra 6">>

\* the slides past the sixth of a deck that is too long
ExtraSlide(k) ==
    [title |-> ExtraTitles[((k - 1) % Len(ExtraTitles)) + 1], type |-> "bullet_points",
     points |-> <<"more">>]

\* n slides in the prompt's order
PromptDeck(n) ==
    [i \in 1..n |-> IF i <= Len(PromptSlides) THEN PromptSlides[i]
                    ELSE ExtraSlide(i - Len(PromptSlides))]

\* slides that depart from the prompt's schema: fields left out, a type the
\* renderer does not know, no type, no title
OddSlides == {
    [title |-> "Title", type |-> "title_slide", content |-> "Main"],
    [title |-> "Title", type |-> "title_slide"],
    [title |-> "Conclusion", type |-> "conclusion_slide", content |-> "Summary"],
    [title |-> "Conclusion", type |-> "conclusion_slide", key_takeaway |-> "Takeaway"],
    [title |-> "Chart", type |-> "image_slide", points |-> <<"c1", "c2">>],
    [title |-> "Concept", type |-> "section_header"],
    [title |-> "Content", type |-> "content_slide"],
    [title |-> "Intro", type |-> "bullet_points"],
    [title |-> "Untyped", points |-> <<"u1">>],
    [type |-> "bullet_points", points |-> <<"n1">>] }

\* slides with position i replaced by s
Patch(slides, i, s) == [k \in 1..Len(slides) |-> IF k = i THEN s ELSE slides[k]]

\* the dicts json.loads returns: decks of 0..MaxSlides slides in the prompt's
\* order, the same with one slide replaced by an odd one, a deck without
\* "slides", one without "title", and an object that is no deck
ParsedObjects ==
    {[title |-> "T", slides |-> PromptDeck(n)] : n \in 0..MaxSlides}
    \cup {[title |-> "T", slides |-> Patch(PromptDeck(n), i, s)] :
            n \in 1..MaxSlides, i \in 1..MaxSlides, s \in OddSlides}
    \cup {[title |-> "T"], [slides |-> PromptDeck(RequiredSlides)], [error |-> "refused"]}

JsonLoadsOutcomes ==
    {[ok |-> TRUE, value |-> d] : d \in ParsedObjects}
    \cup {[ok |-> FALSE, msg |-> JsonErrorMessage]}

\* answers of the remote model to the presentation prompt
GeneratorTexts == {
    <<72, 101, 114, 101, 32, 105, 115, 32, 121, 111, 117, 114, 32, 100, 101, 99, 107>>,  \* 'Here is your deck'
    <<123>>,                                                                         \* '{'
    <<125, 32, 123>>,                                                                \* '} {'
    <<83, 117, 114, 101, 58, 10, 123, 46, 46, 46, 125, 10, 68, 111, 110, 101, 32, 123, 111, 107, 125>>,  \* 'Sure:\n{...}\nDone {ok}'
    <<32, 123, 46, 46, 46, 125, 10>> }                                               \* ' {...}\n'

\* a response: its text, and what json.loads makes of the span taken from it
GeneratorResponse(text, loads) == [kind |-> "text", text |-> text, loads |-> loads]

GeneratorRemotes ==
    RemoteFailures
    \cup {GeneratorResponse(t, l) : t \in GeneratorTexts, l \in JsonLoadsOutcomes}

\* what the user types or says in a session
SessionQueries == {
    <<99, 114, 101, 97, 116, 101, 32, 97, 32, 112, 112, 116, 32, 97, 98, 111, 117, 116, 32,
      112, 104, 111, 116, 111, 115, 121, 110, 116, 104, 101, 115, 105, 115>>,  \* 'create a ppt about photosynthesis'
    <<109, 97, 107, 101, 32, 97, 32, 112, 112, 116, 32>>,                      \* 'make a ppt '
    <<104, 101, 108, 108, 111>> }                                              \* 'hello'

SessionClassifyRemotes == {
    Raise("Connection error."),
    Text(<<110, 111, 114, 109, 97, 108, 95, 113, 117, 101, 114, 121>>),          \* 'normal_query'
    Text(<<80, 80, 84, 95, 71, 69, 78, 69, 82, 65, 84, 73, 79, 78>>) }           \* 'PPT_GENERATION'

SessionDecks == {
    [title |-> "T", slides |-> PromptDeck(RequiredSlides)],
    [title |-> "T", slides |-> PromptDeck(RequiredSlides - 3)],
    [title |-> "T", slides |-> <<[title |-> "Untyped", points |-> <<"u1">>]>>],
    [slides |-> PromptDeck(RequiredSlides)],
    [title |-> "T"] }

SessionGeneratorRemotes ==
    {Raise("Connection error.")}
    \cup {GeneratorResponse(<<72, 101, 114, 101, 32, 105, 115, 32, 121, 111, 117, 114, 32,
                              100, 101, 99, 107>>,                             \* 'Here is your deck'
                            [ok |-> FALSE, msg |-> JsonErrorMessage])}
    \cup {GeneratorResponse(<<32, 123, 46, 46, 46, 125, 10>>,                   \* ' {...}\n'
                            [ok |-> TRUE, value |-> d]) : d \in SessionDecks}

ChatRemotes == {Raise("Connection error."), Text("An answer.")}

DetectRemotes == {
    Raise("Connection error."),
    Text(<<104, 105, 110, 100, 105, 46>>) }    \* 'hindi.'

\* the languages picked in the sidebar
OfferedLanguages == {"English", "Urdu"}

\* USER_CREDENTIALS
USER_CREDENTIALS == [u \in {"teacher#7242", "student#1513"} |-> "log123"]

Usernames == {"teacher#7242", "student#1513", "guest"}
Passwords == {"log123", "letmein"}

----------------------------------------------------------------------------
(* The session: main(), one script run per user event, in steps.           *)

VARIABLES
    authenticated,      \* st.session_state.authenticated
    language,           \* st.session_state.language (multilingual variant)
    messages,           \* st.session_state.messages
    pc,                 \* where the running turn is: "idle" between turns
    turn,               \* the locals of the turn: channel, user_input, lang,
                        \*   intent, topic, reply, and output, the text the
                        \*   generator's call returned (None: none)
    calls,              \* remote calls issued in the turn, by operation
    failed,             \* operations whose remote call failed in the turn
    events,             \* what the turn did, in order
    presentation_data,  \* process_ppt_request's local, while the function runs
    deck,               \* how many slides create_powerpoint added, and whether
                        \*   it saved the file
    sent,               \* the message list process_chat_query sent
    fault,              \* the exception that ended the script run uncaught
    shown               \* the st.error banners of the turn

sessionvars == <<authenticated, language, messages, pc, turn, calls, failed, events,
                 presentation_data, deck, sent, fault, shown>>

vars == <<variant, fn, arg, res, authenticated, language, messages, pc, turn, calls,
          failed, events, presentation_data, deck, sent, fault, shown>>

NoTurn == [channel |-> "none", user_input |-> <<>>, lang |-> "English",
           intent |-> "none", topic |-> <<>>, output |-> None, reply |-> NoReply]
NoCalls == [replay |-> 0, detect |-> 0, recognize |-> 0, classify |-> 0,
            generate |-> 0, chat |-> 0, speech |-> 0]
NoData == [unset |-> TRUE]
NoDeck == [slides |-> 0, saved |-> FALSE]
NoFault == [exc |-> "none", at |-> "none"]

\* the session state of a fresh browser session: main()'s "Initialize session state"
SessionStart ==
    /\ authenticated = FALSE
    /\ language = "English"
    /\ messages = <<>>
    /\ pc = "idle"
    /\ turn = NoTurn
    /\ calls = NoCalls
    /\ failed = {}
    /\ events = <<>>
    /\ presentation_data = NoData
    /\ deck = NoDeck
    /\ sent = <<>>
    /\ fault = NoFault
    /\ shown = {}

Init ==
    /\ variant \in Variants
    /\ fn = "session"
    /\ arg = <<>>
    /\ res = <<>>
    /\ SessionStart

\* a stored message; the multilingual variant adds the language
Message(role, content, lang) ==
    IF variant = "basic" THEN [role |-> role, content |-> content]
    ELSE [role |-> role, content |-> content, language |-> lang]

\* a login that tests the username alone
LoginAnyPassword(username, password) ==
    /\ pc = "idle"
    /\ ~authenticated
    /\ IF username \in DOMAIN USER_CREDENTIALS
       THEN authenticated' = TRUE /\ language' = "English"
       ELSE UNCHANGED <<authenticated, language>>
    /\ UNCHANGED <<variant, purevars, messages, pc, turn, calls, failed, events,
                   presentation_data, deck, sent, fault, shown>>

\* login_page(): the Login button
Login(username, password) ==
    /\ pc = "idle"
    /\ ~authenticated
    /\ IF username \in DOMAIN USER_CREDENTIALS /\ USER_CREDENTIALS[username] = password
       THEN authenticated' = TRUE /\ language' = "English"
       ELSE UNCHANGED <<authenticated, language>>
    /\ UNCHANGED <<variant, purevars, messages, pc, turn, calls, failed, events,
                   presentation_data, deck, sent, fault, shown>>

\* display_sidebar_tools(): the language selector
SelectLanguage(selected_language) ==
    /\ variant = "multilingual"
    /\ pc = "idle"
    /\ authenticated
    /\ selected_language # language
    /\ language' = selected_language
    /\ UNCHANGED <<variant, purevars, authenticated, messages, pc, turn, calls, failed,
                   events, presentation_data, deck, sent, fault, shown>>

AssistantCount == Cardinality({i \in 1..Len(messages) : messages[i].role = "assistant"})

\* the chat input and the voice button are there: the script run before has
\* ended and the login is behind (main() stops at login_page() before it)
AcceptsInput == pc = "idle" /\ authenticated

\* a script run that handles an input starts when the one before has ended,
\* behind the login; the history display speaks every assistant message again
TurnStarts ==
    /\ AcceptsInput
    /\ Len(messages) + 2 <= MaxHistory
    /\ presentation_data' = NoData
    /\ deck' = NoDeck
    /\ sent' = <<>>
    /\ fault' = NoFault
    /\ UNCHANGED <<variant, purevars, authenticated, language>>

\* main(): "Text input handling" up to the recorded user message
TextInput(user_input, detect) ==
    /\ TurnStarts
    /\ LET d == IF variant = "multilingual" THEN detect_language(detect)
                ELSE [lang |-> "English", calls |-> 0, error_shown |-> FALSE]
       IN  /\ messages' = Append(messages, Message("user", UserContent(user_input), d.lang))
           /\ turn' = [NoTurn EXCEPT !.channel = "text", !.user_input = user_input,
                                     !.lang = d.lang]
           /\ calls' = [NoCalls EXCEPT !.replay = AssistantCount, !.detect = d.calls]
           /\ failed' = IF d.error_shown THEN {"detect_language"} ELSE {}
           /\ shown' = IF d.error_shown THEN {"language"} ELSE {}
           /\ events' = <<"user">>
           /\ pc' = "classify"

\* a voice branch whose except clause shows nothing
VoiceInputSilent(heard) ==
    /\ TurnStarts
    /\ calls' = [NoCalls EXCEPT !.replay = AssistantCount,
                                !.recognize = IF heard.exc \in {"OSError", "WaitTimeoutError"}
                                              THEN 0 ELSE 1]
    /\ IF heard.exc # "none"
       THEN /\ turn' = [NoTurn EXCEPT !.channel = "voice", !.lang = language]
            /\ failed' = {"recognize"}
            /\ shown' = {}
            /\ events' = <<>>
            /\ pc' = "idle"
            /\ UNCHANGED messages
       ELSE /\ messages' = Append(messages, Message("user", UserContent(heard.text), language))
            /\ turn' = [NoTurn EXCEPT !.channel = "voice", !.user_input = heard.text,
                                      !.lang = language]
            /\ failed' = {}
            /\ shown' = {}
            /\ events' = <<"user">>
            /\ pc' = "classify"

\* main(): "Voice input handling" up to the recorded user message, or to the
\* except clause when the microphone, the listening or the recogniser raises
VoiceInput(heard) ==
    /\ TurnStarts
    /\ calls' = [NoCalls EXCEPT !.replay = AssistantCount,
                                !.recognize = IF heard.exc \in {"OSError", "WaitTimeoutError"}
                                              THEN 0 ELSE 1]
    /\ IF heard.exc # "none"
       THEN /\ turn' = [NoTurn EXCEPT !.channel = "voice", !.lang = language]
            /\ failed' = {"recognize"}
            /\ shown' = {"speech"}
            /\ events' = <<>>
            /\ pc' = "idle"
            /\ UNCHANGED messages
       ELSE /\ messages' = Append(messages, Message("user", UserContent(heard.text), language))
            /\ turn' = [NoTurn EXCEPT !.channel = "voice", !.user_input = heard.text,
                                      !.lang = language]
            /\ failed' = {}
            /\ shown' = {}
            /\ events' = <<"user">>
            /\ pc' = "classify"

\* the recogniser returns a transcript without surrounding whitespace
HeardOutcomes ==
    {[exc |-> e, text |-> <<>>] : e \in SpeechFailures}
    \cup {[exc |-> "none", text |-> q] : q \in {x \in SessionQueries : Strip(x) = x}}

\* an exception leaves the turn: inside one of main()'s try blocks it becomes
\* an st.error banner, outside it ends the script run; either way the turn ends
\* without an assistant message
TurnRaises(exc, at, guarded, banner) ==
    /\ pc' = "idle"
    /\ IF guarded
       THEN fault' = NoFault /\ shown' = shown \cup {banner}
       ELSE fault' = [exc |-> exc, at |-> at] /\ shown' = shown

\* the whole voice branch is inside try ... except Exception
InVoiceTry == turn.channel = "voice"

\* Classify with the session language set to the language of the input
ClassifySetsLanguage(remote) ==
    /\ pc = "classify"
    /\ LET r == classify_intent(variant, turn.user_input, remote)
       IN  /\ calls' = [calls EXCEPT !.classify = @ + r.calls]
           /\ failed' = IF r.calls > 0 /\ CallFailed(remote)
                        THEN failed \cup {"classify_intent"} ELSE failed
           /\ events' = Append(events, "classify")
           /\ turn' = [turn EXCEPT !.intent = r.intent]
           /\ pc' = IF r.intent = "ppt_generation" THEN "generate" ELSE "chat"
    /\ language' = turn.lang
    /\ UNCHANGED <<variant, purevars, authenticated, messages, presentation_data, deck,
                   sent, fault, shown>>

\* intent = classify_intent(...)
Classify(remote) ==
    /\ pc = "classify"
    /\ LET r == classify_intent(variant, turn.user_input, remote)
       IN  /\ calls' = [calls EXCEPT !.classify = @ + r.calls]
           /\ failed' = IF r.calls > 0 /\ CallFailed(remote)
                        THEN failed \cup {"classify_intent"} ELSE failed
           /\ events' = Append(events, "classify")
           /\ IF r.exc # "none"
              THEN /\ TurnRaises(r.exc, "classify_intent", InVoiceTry, "speech")
                   /\ UNCHANGED turn
              ELSE /\ turn' = [turn EXCEPT !.intent = r.intent]
                   /\ pc' = IF r.intent = "ppt_generation" THEN "generate" ELSE "chat"
                   /\ UNCHANGED <<fault, shown>>
    /\ UNCHANGED <<variant, purevars, authenticated, language, messages,
                   presentation_data, deck, sent>>

\* process_ppt_request(), first half: the topic, the generator call and the
\* "error" in presentation_data test
Generate(remote) ==
    /\ pc = "generate"
    /\ LET t == FormatTopic(variant, ExtractTopic(turn.user_input))
           g == generate_presentation_content(remote)
       IN  IF t.exc # "none"
           THEN /\ TurnRaises(t.exc, "format_topic", InVoiceTry, "speech")
                /\ UNCHANGED <<turn, calls, failed, events, presentation_data>>
           ELSE /\ calls' = [calls EXCEPT !.generate = @ + g.calls]
                /\ failed' = IF CallFailed(remote)
                             THEN failed \cup {"generate_presentation_content"}
                             ELSE failed
                /\ events' = Append(events, "generate")
                /\ presentation_data' = IF g.exc = "none" /\ "error" \notin DOMAIN g.data
                                        THEN g.data ELSE NoData
                /\ IF g.exc # "none"
                   THEN /\ TurnRaises(g.exc, "generate_presentation_content",
                                      InVoiceTry, "speech")
                        /\ turn' = [turn EXCEPT !.topic = t.topic]
                   ELSE /\ turn' = [turn EXCEPT
                                      !.topic = t.topic,
                                      !.output = IF CallFailed(remote) THEN None
                                                 ELSE Str(Strip(remote.text)),
                                      !.reply = IF "error" \in DOMAIN g.data
                                                THEN PptErrorReply(g.data) ELSE NoReply]
                        /\ pc' = IF "error" \in DOMAIN g.data THEN "speak" ELSE "render"
                        /\ UNCHANGED <<fault, shown>>
    /\ UNCHANGED <<variant, purevars, authenticated, language, messages, deck, sent>>

\* process_ppt_request(), second half: create_powerpoint, the structure
\* display (presentation_data['title'], each slide's title and type) and the
\* reply
Render ==
    /\ pc = "render"
    /\ LET r == create_powerpoint(presentation_data)
       IN  /\ presentation_data' = NoData
           /\ deck' = [slides |-> Len(r.rendered), saved |-> r.saved]
           /\ events' = Append(events, "render")
           /\ IF r.exc # "none"
              THEN /\ TurnRaises(r.exc, "create_powerpoint", InVoiceTry, "speech")
                   /\ UNCHANGED turn
              ELSE IF "title" \notin DOMAIN r.data
              THEN /\ TurnRaises("KeyError", "structure_display", InVoiceTry, "speech")
                   /\ UNCHANGED turn
              ELSE /\ turn' = [turn EXCEPT !.reply = PptReadyReply(turn.topic)]
                   /\ pc' = "speak"
                   /\ UNCHANGED <<fault, shown>>
    /\ UNCHANGED <<variant, purevars, authenticated, language, messages, calls, failed,
                   sent>>

\* reply = process_chat_query(...); the text branch calls it inside
\* try ... except Exception, the voice branch inside the outer try
Chat(remote) ==
    /\ pc = "chat"
    /\ LET c == process_chat_query(messages, turn.user_input, remote)
       IN  /\ calls' = [calls EXCEPT !.chat = @ + c.calls]
           /\ failed' = IF CallFailed(remote) THEN failed \cup {"process_chat_query"}
                        ELSE failed
           /\ events' = Append(events, "chat")
           /\ sent' = c.sent
           /\ IF c.exc # "none"
              THEN /\ TurnRaises(c.exc, "process_chat_query", TRUE,
                                 IF InVoiceTry THEN "speech" ELSE "response")
                   /\ UNCHANGED turn
              ELSE /\ turn' = [turn EXCEPT !.reply = c.reply]
                   /\ pc' = "speak"
                   /\ UNCHANGED <<fault, shown>>
    /\ UNCHANGED <<variant, purevars, authenticated, language, messages,
                   presentation_data, deck>>

\* st.markdown(reply), generate_speech(reply), and
\* st.session_state.messages.append({"role": "assistant", "content": reply})
Speak(tts_ok) ==
    /\ pc = "speak"
    /\ LET s == generate_speech(tts_ok)
           guarded == InVoiceTry \/ turn.intent # "ppt_generation"
       IN  /\ calls' = [calls EXCEPT !.speech = @ + s.calls]
           /\ failed' = IF tts_ok THEN failed ELSE failed \cup {"generate_speech"}
           /\ IF s.exc # "none"
              THEN /\ TurnRaises(s.exc, "generate_speech", guarded,
                                 IF InVoiceTry THEN "speech" ELSE "response")
                   /\ UNCHANGED <<messages, events>>
              ELSE /\ messages' = Append(messages, Message("assistant", turn.reply, turn.lang))
                   /\ events' = Append(events, "assistant")
                   /\ shown' = IF s.error_shown THEN shown \cup {"audio"} ELSE shown
                   /\ pc' = "idle"
                   /\ UNCHANGED fault
    /\ UNCHANGED <<variant, purevars, authenticated, language, turn, presentation_data,
                   deck, sent>>

Next ==
    \/ \E u \in Usernames, p \in Passwords : Login(u, p)
    \/ \E l \in OfferedLanguages : SelectLanguage(l)
    \/ \E q \in SessionQueries, d \in DetectRemotes : TextInput(q, d)
    \/ \E h \in HeardOutcomes : VoiceInput(h)
    \/ \E r \in SessionClassifyRemotes : Classify(r)
    \/ \E r \in SessionGeneratorRemotes : Generate(r)
    \/ Render
    \/ \E r \in ChatRemotes : Chat(r)
    \/ \E ok \in BOOLEAN : Speak(ok)

Spec == Init /\ [][Next]_vars

----------------------------------------------------------------------------
(* The functions taken alone: one call of the function on an argument      *)
(* drawn from the inputs, in a session that has not started.               *)

NotRun == [run |-> FALSE]
Ran(out) == [run |-> TRUE, out |-> out]

\* classify_intent(query, groq_client) on a query and an outcome of the call
InitClassify ==
    /\ variant \in Variants
    /\ fn = "classify_intent"
    /\ arg \in [query : ClassifyQueries, remote : ClassifyRemotes]
    /\ res = NotRun
    /\ SessionStart

CallClassify ==
    /\ fn = "classify_intent"
    /\ ~res.run
    /\ res' = Ran(classify_intent(variant, arg.query, arg.remote))
    /\ UNCHANGED <<variant, fn, arg, sessionvars>>

SpecClassify == InitClassify /\ [][CallClassify]_vars

\* extract_json(text) on a text
InitExtract ==
    /\ variant \in Variants
    /\ fn = "extract_json"
    /\ arg \in [text : BraceTexts(MaxTextLen)]
    /\ res = NotRun
    /\ SessionStart

CallExtract ==
    /\ fn = "extract_json"
    /\ ~res.run
    /\ res' = Ran(extract_json(arg.text))
    /\ UNCHANGED <<variant, fn, arg, sessionvars>>

SpecExtract == InitExtract /\ [][CallExtract]_vars

\* generate_presentation_content(prompt, client) on an outcome of the call
InitGenerate ==
    /\ variant \in Variants
    /\ fn = "generate_presentation_content"
    /\ arg \in [remote : GeneratorRemotes]
    /\ res = NotRun
    /\ SessionStart

CallGenerate ==
    /\ fn = "generate_presentation_content"
    /\ ~res.run
    /\ res' = Ran(generate_presentation_content(arg.remote))
    /\ UNCHANGED <<variant, fn, arg, sessionvars>>

SpecGenerate == InitGenerate /\ [][CallGenerate]_vars

\* create_powerpoint(presentation_data, output_path) on a parsed object
InitRender ==
    /\ variant \in Variants
    /\ fn = "create_powerpoint"
    /\ arg \in [presentation_data : {d \in ParsedObjects : "error" \notin DOMAIN d}]
    /\ res = NotRun
    /\ SessionStart

CallRender ==
    /\ fn = "create_powerpoint"
    /\ ~res.run
    /\ res' = Ran(create_powerpoint(arg.presentation_data))
    /\ UNCHANGED <<variant, fn, arg, sessionvars>>

SpecRender == InitRender /\ [][CallRender]_vars

----------------------------------------------------------------------------
(* The claims about classify_intent, under SpecClassify.                   *)

\* the trigger keywords of the variant, as a set
TriggerKeywords(v) == {ppt_keywords(v)[i] : i \in 1..Len(ppt_keywords(v))}

\* the call of classify_intent has returned
ClassifyRan == fn = "classify_intent" /\ res.run

\* a keyword of the variant's list occurs in the lower-cased query
HasTriggerKeyword ==
    \E k \in TriggerKeywords(variant) :
        \E p \in 1..Len(arg.query) :
            /\ p + Len(k) - 1 <= Len(arg.query)
            /\ SubSeq(LowerText(arg.query), p, p + Len(k) - 1) = k

\* "presentation" in Gujarati, a language of INDIAN_LANGUAGES
GujaratiPresentation == <<2730, 2765, 2736, 2759, 2717, 2728, 2765, 2719, 2759, 2742, 2728>>

C2_FailureIsNormalQuery ==
    (ClassifyRan /\ ~HasTriggerKeyword /\ arg.remote.kind # "text")
        => /\ res.out.intent = "normal_query"
           /\ res.out.exc = "none"

\* a response without choices was answered with normal_query
C2_Witness ==
    /\ ClassifyRan
    /\ ~HasTriggerKeyword
    /\ arg.remote.kind = "no_choices"
    /\ res.out.intent = "normal_query"
    /\ res.out.calls = 1

\* the response text contains "ppt_generation", whatever the case of its letters
SaysPptGeneration ==
    /\ arg.remote.kind = "text"
    /\ \E p \in 1..Len(arg.remote.text) :
          /\ p + Len(PptGenerationText) - 1 <= Len(arg.remote.text)
          /\ LowerText(SubSeq(arg.remote.text, p, p + Len(PptGenerationText) - 1))
                = PptGenerationText

\* C3: with no trigger keyword in the query, classify_intent issues exactly
\* one remote call and returns one of the two intents: ppt_generation if and
\* only if the response text contains "ppt_generation" in any case,
\* normal_query otherwise.
C3_RemoteDecides ==
    (ClassifyRan /\ ~HasTriggerKeyword)
        => /\ res.out.calls = 1
           /\ res.out.intent \in IntentValues
           /\ res.out.intent = "ppt_generation" <=> SaysPptGeneration

\* a response that carries the literal inside a sentence gave ppt_generation
C3_Witness ==
    /\ ClassifyRan
    /\ ~HasTriggerKeyword
    /\ SaysPptGeneration
    /\ LowerText(Strip(arg.remote.text)) # PptGenerationText
    /\ res.out.intent = "ppt_generation"
    /\ res.out.calls = 1

----------------------------------------------------------------------------
(* The claims about extract_json, under SpecExtract.                       *)

ExtractRan == fn = "extract_json" /\ res.run

OpenBraces(text) == {i \in 1..Len(text) : text[i] = OpenBrace}
CloseBraces(text) == {i \in 1..Len(text) : text[i] = CloseBrace}

----------------------------------------------------------------------------
(* The claim about the slide count, under SpecRender.                      *)

RenderRan == fn = "create_powerpoint" /\ res.run

\* C4: for a parsed presentation whose slides sequence has any length, the
\* slides sequence has length 6 after the normalization step of
\* create_powerpoint, and 6 slides are rendered into the deck.
C4_SixSlidesRendered ==
    (RenderRan /\ "slides" \in DOMAIN arg.presentation_data)
        => /\ Len(res.out.data.slides) = RequiredSlides
           /\ Len(res.out.rendered) = RequiredSlides

----------------------------------------------------------------------------
(* The claim about the generator's errors, under SpecGenerate.             *)

GenerateRan == fn = "generate_presentation_content" /\ res.run

\* the text has a '{' with a '}' somewhere after it
HasBraceSpan(text) ==
    \E i \in 1..Len(text), j \in 1..Len(text) :
        i < j /\ text[i] = OpenBrace /\ text[j] = CloseBrace

\* what went wrong in a call of the generator
FailureMode(remote) ==
    IF remote.kind # "text" THEN "remote_call"
    ELSE IF ~HasBraceSpan(remote.text) THEN "no_json"
    ELSE IF ~remote.loads.ok THEN "malformed_json"
    ELSE "none"

\* the message the error value of a failure carries
FailureMessage(remote) ==
    CASE FailureMode(remote) = "no_json" -> NoJsonMessage
      [] FailureMode(remote) = "malformed_json" -> remote.loads.msg
      [] remote.kind = "raise" -> remote.msg
      [] remote.kind = "no_choices" -> "list index out of range"
      [] remote.kind = "no_content" -> "'NoneType' object has no attribute 'strip'"

\* C7 (amended): each of the three failures of generate_presentation_content
\* (remote call failure, no brace-delimited substring, substring that fails
\* to parse) comes back, with nothing raised, as a dict whose only key is
\* "error" and whose value is the message: the fixed no-JSON text or the
\* text of the exception; no field names the failure mode.
C7_ErrorIsMessageOnly ==
    (GenerateRan /\ FailureMode(arg.remote) # "none")
        => /\ res.out.exc = "none"
           /\ DOMAIN res.out.data = {"error"}
           /\ res.out.data.error = FailureMessage(arg.remote)

\* a response whose span failed to parse came back as its parser message
C7_Witness ==
    /\ GenerateRan
    /\ FailureMode(arg.remote) = "malformed_json"
    /\ res.out.data = [error |-> JsonErrorMessage]

\* C7 as stated: the three failure modes give mutually distinguishable
\* errors, so no call that failed in another mode returns the same value.
C7_ThreeDistinctErrors ==
    (GenerateRan /\ FailureMode(arg.remote) # "none")
        => \A other \in GeneratorRemotes :
              FailureMode(other) \notin {"none", FailureMode(arg.remote)}
                  => generate_presentation_content(other).data # res.out.data

----------------------------------------------------------------------------
(* The claims about a turn of the session, under Spec.                     *)

\* the generator's remote call failed in the turn
GeneratorFailed == "generate_presentation_content" \in failed

\* the turn went through the step
Did(step) == \E i \in 1..Len(events) : events[i] = step

\* the turn has ended and the history ends with its user message and its reply
TurnRecorded ==
    /\ Len(messages) >= 2
    /\ messages[Len(messages) - 1] = Message("user", UserContent(turn.user_input), turn.lang)
    /\ messages[Len(messages)] = Message("assistant", turn.reply, turn.lang)

\* C5 (amended): when the generator's remote call raises during a
\* ppt_generation turn, the turn ends with the generation error as its reply,
\* create_powerpoint is never invoked and no deck file is written; the
\* history keeps the turn's user message and gains the error reply as the
\* assistant message, and nothing else of it changes.
C5_GeneratorFailureReply ==
    /\ [](GeneratorFailed =>
            /\ turn.reply.kind = "ppt_error"
            /\ fault = NoFault
            /\ ~Did("render")
            /\ deck = NoDeck
            /\ presentation_data = NoData
            /\ pc \in {"speak", "idle"}
            /\ pc = "idle" => TurnRecorded)
    /\ [][/\ pc = "generate" => messages' = messages
          /\ (GeneratorFailed /\ pc = "speak")
                => messages' = Append(messages, Message("assistant", turn.reply, turn.lang))]_vars

\* a text turn whose generator call raised has ended with the error reply
\* recorded and no deck
C5_Witness ==
    /\ GeneratorFailed
    /\ pc = "idle"
    /\ turn.channel = "text"
    /\ turn.reply = PptErrorReply([error |-> "Connection error."])
    /\ TurnRecorded
    /\ deck = NoDeck

\* C5 as stated: the turn ends with the generation error, no deck is
\* rendered, and no step of the turn after the failure changes the history.
C5_HistoryUnmodified ==
    /\ [](GeneratorFailed => turn.reply.kind = "ppt_error" /\ ~Did("render") /\ deck = NoDeck)
    /\ [][(GeneratorFailed /\ pc # "idle") => messages' = messages]_vars

\* the operations that call a remote service
RemoteOperations ==
    {"detect_language", "recognize", "classify_intent", "generate_presentation_content",
     "process_chat_query", "generate_speech"}

\* C6: in every turn, text or voice, the failure of a remote call (language
\* detection, classification, content generation, chat completion,
\* text-to-speech, speech-to-text) becomes a value or a shown error: no
\* exception of a remote operation escapes the turn, and once the turn has
\* ended the next input is accepted.
C6_RemoteFailuresAreValues ==
    /\ failed \subseteq RemoteOperations
    /\ fault.at \notin RemoteOperations
    /\ "detect_language" \in failed => turn.lang = "English" /\ "language" \in shown
    /\ "recognize" \in failed => pc = "idle" /\ "speech" \in shown /\ events = <<>>
    /\ "classify_intent" \in failed => turn.intent = "normal_query"
    /\ GeneratorFailed => turn.reply.kind = "ppt_error"
    /\ "process_chat_query" \in failed => turn.reply.kind = "chat_error"
    /\ "generate_speech" \in failed => pc = "idle" /\ "audio" \in shown /\ TurnRecorded
    /\ (failed # {} /\ pc = "idle") => AcceptsInput

\* after a turn whose generator call failed, a chat turn ran to its answer
C6_Witness ==
    /\ pc = "idle"
    /\ Len(messages) = 4
    /\ messages[2].content.kind = "ppt_error"
    /\ messages[4].content.kind = "chat"
    /\ failed = {}
    /\ fault = NoFault

\* the text has no '{'
NoOpenBrace(text) == \A i \in 1..Len(text) : text[i] # OpenBrace

\* the generator's call returned a text without '{'
NoBraceResponse == ~turn.output.is_none /\ NoOpenBrace(turn.output.str)

\* C8: when the generator's response contains no '{', extract_json gives
\* None, generate_presentation_content returns the no-JSON error value and
\* raises nothing, and process_ppt_request returns the error reply and
\* renders nothing.
C8_NoBraceIsErrorReply ==
    NoBraceResponse
        => /\ extract_json(turn.output.str) = None
           /\ turn.reply = PptErrorReply([error |-> NoJsonMessage])
           /\ fault = NoFault
           /\ ~Did("render")
           /\ deck = NoDeck
           /\ pc \in {"speak", "idle"}

\* a turn whose response had no '{' has ended with the error reply recorded
C8_Witness ==
    /\ NoBraceResponse
    /\ pc = "idle"
    /\ TurnRecorded
    /\ messages[Len(messages)].content = PptErrorReply([error |-> NoJsonMessage])
    /\ deck = NoDeck

\* C9: no remote operation is retried: a turn issues at most one call for
\* classification, one for generation and one for chat, whatever the
\* outcomes, and after a failed generator call the turn issues no further
\* generator call and goes on to its end; the next call needs a new input.
C9_NoRetry ==
    /\ [](/\ calls.classify <= 1
          /\ calls.generate <= 1
          /\ calls.chat <= 1
          /\ calls.generate + calls.chat <= 1
          /\ GeneratorFailed => pc \in {"speak", "idle"})
    /\ [][/\ (GeneratorFailed /\ pc # "idle") => calls'.generate = calls.generate
          /\ calls'.generate > calls.generate => (pc = "generate" /\ calls.generate = 0)]_vars

\* a turn has ended after its one generator call failed
C9_Witness ==
    /\ GeneratorFailed
    /\ pc = "idle"
    /\ calls.generate = 1
    /\ events = <<"user", "classify", "generate", "assistant">>

----------------------------------------------------------------------------
(* Further claims about extract_json (SpecExtract) and about               *)
(* create_powerpoint (SpecRender).                                         *)

\* C11: for every text that contains no '{', extract_json returns None.
C11_NoBraceIsNone ==
    (ExtractRan /\ OpenBraces(arg.text) = {}) => res.out = None

\* a text with closing braces only gave None
C11_Witness ==
    /\ ExtractRan
    /\ arg.text = <<CloseBrace, 97, CloseBrace>>
    /\ res.out.is_none

\* the slides of the parsed presentation handed to create_powerpoint, and
\* the slides it holds when the call is over
SlidesIn == arg.presentation_data.slides
SlidesOut == res.out.data.slides

RenderRanOnSlides == RenderRan /\ "slides" \in DOMAIN arg.presentation_data

\* C12: when the input has n < 6 slides, normalization appends exactly 6 - n
\* fillers after the original ones; each filler has type bullet_points, the
\* generic title and exactly four points, and the n original slides stay at
\* positions 1..n unchanged.
C12_PaddingAppendsFillers ==
    (RenderRanOnSlides /\ Len(SlidesIn) < RequiredSlides)
        => /\ Len(SlidesOut) = RequiredSlides
           /\ \A i \in 1..Len(SlidesIn) : SlidesOut[i] = SlidesIn[i]
           /\ \A i \in (Len(SlidesIn) + 1)..RequiredSlides :
                 /\ DOMAIN SlidesOut[i] = {"title", "type", "points"}
                 /\ SlidesOut[i].type = "bullet_points"
                 /\ SlidesOut[i].title = "Additional Information"
                 /\ Len(SlidesOut[i].points) = 4

\* a deck of three slides came out as its three slides and three fillers
C12_Witness ==
    /\ RenderRanOnSlides
    /\ SlidesIn = PromptDeck(3)
    /\ Len(SlidesOut) = RequiredSlides
    /\ SlidesOut[3] = PromptSlides[3]
    /\ SlidesOut[4].title = "Additional Information"

\* C13: normalization never reorders or alters source slides: output slide i
\* is input slide i for every i up to min(n, 6), and for n > 6 the output is
\* exactly the first 6 input slides.
C13_SourceSlidesKept ==
    RenderRanOnSlides
        => /\ \A i \in 1..RequiredSlides : i <= Len(SlidesIn) => SlidesOut[i] = SlidesIn[i]
           /\ Len(SlidesIn) > RequiredSlides
                 => SlidesOut = [i \in 1..RequiredSlides |-> SlidesIn[i]]

\* a deck of ten slides came out as its first six
C13_Witness ==
    /\ RenderRanOnSlides
    /\ Len(SlidesIn) = 10
    /\ SlidesOut = PromptDeck(RequiredSlides)
    /\ SlidesIn[7] = ExtraSlide(1)

\* the type tags the generator's prompt asks for, in its order
NominalTypes ==
    <<"title_slide", "bullet_points", "section_header", "content_slide",
      "bullet_points", "conclusion_slide">>

\* the type tag of a slide, "(none)" for a slide without one
TypeTag(slide) == IF "type" \in DOMAIN slide THEN slide.type ELSE "(none)"

\* C14 (amended): after normalization the presentation has exactly 6 slides;
\* their type tags are those of the source slides, in source order, and
\* bullet_points for every filler, so they follow the prompt's sequence
\* when the first six source slides do.
C14_TypesAreTheSourceTypes ==
    RenderRanOnSlides
        => /\ Len(SlidesOut) = RequiredSlides
           /\ \A i \in 1..RequiredSlides :
                 TypeTag(SlidesOut[i]) = IF i <= Len(SlidesIn) THEN TypeTag(SlidesIn[i])
                                         ELSE "bullet_points"
           /\ (/\ Len(SlidesIn) >= RequiredSlides
               /\ \A i \in 1..RequiredSlides : TypeTag(SlidesIn[i]) = NominalTypes[i])
                 => \A i \in 1..RequiredSlides : TypeTag(SlidesOut[i]) = NominalTypes[i]

\* a deck of two slides came out with four bullet_points fillers, off the
\* prompt's sequence
C14_Witness ==
    /\ RenderRanOnSlides
    /\ SlidesIn = PromptDeck(2)
    /\ Len(SlidesOut) = RequiredSlides
    /\ \A i \in 3..RequiredSlides : TypeTag(SlidesOut[i]) = "bullet_points"

\* C14 as stated: after normalization every presentation has 6 slides whose
\* type tags are the prompt's sequence.
C14_NominalTypeOrder ==
    RenderRanOnSlides
        => /\ Len(SlidesOut) = RequiredSlides
           /\ \A i \in 1..RequiredSlides : TypeTag(SlidesOut[i]) = NominalTypes[i]

KnownTypes ==
    {"title_slide", "bullet_points", "section_header", "content_slide", "conclusion_slide"}

\* C15: a slide whose type tag is none of the five gets the bullet_points
\* rule: the title-and-content layout and one paragraph for each point, as
\* a slide tagged bullet_points with the same fields.
C15_UnknownTypeAsBullets ==
    RenderRanOnSlides
        => \A i \in 1..Len(res.out.rendered) :
              TypeTag(SlidesOut[i]) \notin KnownTypes
                  => res.out.rendered[i]
                        = RenderSlide([SlidesOut[i] EXCEPT !.type = "bullet_points"])

\* C17: rendering is repeatable: a second call of create_powerpoint on the
\* same presentation, which the first call may have padded or truncated in
\* place, ends as the first did, with the same number of slides and the
\* same text and styling on each, and leaves the presentation as it was.
C17_SecondCallSameDeck ==
    RenderRan
        => LET second == create_powerpoint(res.out.data)
           IN  /\ second.exc = res.out.exc
               /\ second.saved = res.out.saved
               /\ Len(second.rendered) = Len(res.out.rendered)
               /\ \A i \in 1..Len(second.rendered) : second.rendered[i] = res.out.rendered[i]
               /\ second.data = res.out.data

\* a deck of three slides was padded by the first call and rendered as six
C17_Witness ==
    /\ RenderRanOnSlides
    /\ SlidesIn = PromptDeck(3)
    /\ res.out.saved
    /\ Len(res.out.rendered) = RequiredSlides
    /\ create_powerpoint(res.out.data).rendered = res.out.rendered

----------------------------------------------------------------------------
(* Further claims about a turn of the session, under Spec.                 *)

CreatePptAboutPhotosynthesis ==
    <<99, 114, 101, 97, 116, 101, 32, 97, 32, 112, 112, 116, 32, 97, 98, 111, 117, 116, 32,
      112, 104, 111, 116, 111, 115, 121, 110, 116, 104, 101, 115, 105, 115>>

Photosynthesis == <<112, 104, 111, 116, 111, 115, 121, 110, 116, 104, 101, 115, 105, 115>>

\* C16: for the input "create a ppt about photosynthesis" the classifier
\* returns ppt_generation by the keyword fast path with no remote call, the
\* topic process_ppt_request extracts and passes to the generator is
\* "photosynthesis", whatever the case of its first letter, and the
\* generator is called exactly once.
C16_TopicIsPhotosynthesis ==
    (turn.user_input = CreatePptAboutPhotosynthesis /\ Did("generate"))
        => /\ turn.intent = "ppt_generation"
           /\ calls.classify = 0
           /\ calls.generate = 1
           /\ LowerText(turn.topic) = Photosynthesis

\* the microphone, the listening or the recogniser failed in the script run
RecognitionFailed == "recognize" \in failed

\* C18: when microphone capture, the listening timeout or speech recognition
\* fails in the voice path, an error message is shown and the conversation
\* is as it was: the step appends no message to the history, and no
\* classification, generation or chat call is made.
C18_SpeechFailureLeavesHistory ==
    /\ [](RecognitionFailed =>
            /\ pc = "idle"
            /\ "speech" \in shown
            /\ fault = NoFault
            /\ events = <<>>
            /\ turn.reply = NoReply
            /\ calls.detect = 0 /\ calls.classify = 0
            /\ calls.generate = 0 /\ calls.chat = 0 /\ calls.speech = 0)
    /\ [][("recognize" \in failed') => messages' = messages]_vars

\* after a complete turn, a voice input failed and the two messages stayed
C18_Witness ==
    /\ RecognitionFailed
    /\ pc = "idle"
    /\ Len(messages) = 2
    /\ "speech" \in shown

\* the chat call failed in the turn
ChatFailed == "process_chat_query" \in failed

\* C19: when the remote chat-completion call of a normal_query turn fails,
\* process_chat_query returns the error text and raises nothing, and the
\* turn gives it as its reply: it is appended to the history as the
\* assistant message of the turn.
C19_ChatFailureIsReply ==
    ChatFailed
        => /\ turn.intent = "normal_query"
           /\ turn.reply = [kind |-> "chat_error", error |-> "Connection error."]
           /\ fault = NoFault
           /\ shown \cap {"response", "speech"} = {}
           /\ pc \in {"speak", "idle"}
           /\ pc = "idle"
                 => /\ TurnRecorded
                    /\ events = <<"user", "classify", "chat", "assistant">>

\* a text turn whose chat call failed has ended with the error text as the
\* assistant message
C19_Witness ==
    /\ ChatFailed
    /\ pc = "idle"
    /\ turn.channel = "text"
    /\ messages[Len(messages)].role = "assistant"
    /\ messages[Len(messages)].content.kind = "chat_error"

\* the events of a turn that ran to its end: with a deck, with a failed
\* generation (no render), with a chat answer
CompleteTurns ==
    {<<"user", "classify", "generate", "render", "assistant">>,
     <<"user", "classify", "generate", "assistant">>,
     <<"user", "classify", "chat", "assistant">>}

IsPrefix(s, t) == Len(s) <= Len(t) /\ SubSeq(t, 1, Len(s)) = s

\* C20: every turn runs to its end before the next starts, its events in
\* the order: user message recorded, classify, then generate followed by
\* render or else chat, then assistant message recorded; render only after
\* a successful generate, and never generate and chat in one turn.
C20_TurnRunsToItsEnd ==
    /\ \E t \in CompleteTurns : IsPrefix(events, t)
    /\ (pc = "idle" /\ events # <<>>) => events \in CompleteTurns
    /\ Did("render") => (Did("generate") /\ ~GeneratorFailed /\ turn.reply.kind # "ppt_error")
    /\ ~(Did("generate") /\ Did("chat"))

----------------------------------------------------------------------------
(* The claims about the session's guards, under Spec.                      *)

\* the session state classify_intent has no business with
SessionState == <<messages, language, authenticated>>

\* the counters of the remote and device calls other than the classifier's
OtherCalls == [k \in DOMAIN calls \ {"classify"} |-> calls[k]]

\* C21: the classification step issues at most one remote call and nothing
\* else: on the keyword path, the remote answer path and the remote failure
\* path it leaves the history, the language preference and the
\* authentication flag as they were.
C21_ClassifyLeavesSession ==
    [][pc = "classify" =>
          /\ SessionState' = SessionState
          /\ calls'.classify \in {calls.classify, calls.classify + 1}
          /\ OtherCalls' = OtherCalls]_vars

\* a turn whose classifier call failed has been classified: its user
\* message is the whole history
C21_Witness ==
    /\ Did("classify")
    /\ "classify_intent" \in failed
    /\ calls.classify = 1
    /\ pc = "chat"
    /\ Len(messages) = 1

----------------------------------------------------------------------------
(* The claims about the bodies of the slides, under SpecRender.            *)

\* the slides of the deck that were rendered, as positions
RenderedSlides == 1..Len(res.out.rendered)

\* the texts of the paragraphs of a slide's body, in order
ParaTexts(body) == [i \in 1..Len(body) |-> body[i].text]

\* the rendered slides of a type
RenderedOfType(type) ==
    {i \in RenderedSlides : TypeTag(SlidesOut[i]) = type}

\* C22: the body of a rendered title_slide is one subtitle paragraph whose
\* text is the slide's subtitle field when it has one, else its content
\* field when it has one, else empty.
C22_TitleSlideSubtitle ==
    RenderRanOnSlides =>
        \A i \in RenderedOfType("title_slide") :
            LET slide_data == SlidesOut[i]
                expected == IF "subtitle" \in DOMAIN slide_data THEN slide_data.subtitle
                            ELSE IF "content" \in DOMAIN slide_data THEN slide_data.content
                            ELSE ""
            IN  /\ ParaTexts(res.out.rendered[i].body) = << <<expected>> >>
                /\ res.out.rendered[i].body[1].role = "subtitle"

\* a deck was rendered whole with a title slide that has content and no
\* subtitle, and its content is the subtitle text
C22_Witness ==
    /\ RenderRanOnSlides
    /\ res.out.exc = "none"
    /\ \E i \in RenderedOfType("title_slide") :
          /\ "subtitle" \notin DOMAIN SlidesOut[i]
          /\ "content" \in DOMAIN SlidesOut[i]
          /\ ParaTexts(res.out.rendered[i].body) = << <<SlidesOut[i].content>> >>

\* the text of the conclusion slide's content line
ContentLine(slide_data) ==
    <<IF "content" \in DOMAIN slide_data THEN slide_data.content ELSE "">>

\* the text of the key_takeaway line
TakeawayLine(slide_data) == <<"Key Takeaway: ", slide_data.key_takeaway>>

\* the text of the blank spacer paragraph
SpacerLine == <<"">>

\* C23 (as stated): the body of a rendered conclusion_slide is the content
\* line, then a blank spacer paragraph, then the key_takeaway line, the
\* last one there exactly when the slide has a key_takeaway field.
C23_SpacerThenTakeaway ==
    RenderRanOnSlides =>
        \A i \in RenderedOfType("conclusion_slide") :
            ParaTexts(res.out.rendered[i].body)
                = <<ContentLine(SlidesOut[i]), SpacerLine>>
                  \o (IF "key_takeaway" \in DOMAIN SlidesOut[i]
                      THEN <<TakeawayLine(SlidesOut[i])>> ELSE <<>>)

\* C23 (amended): the body of a rendered conclusion_slide is the content
\* line, followed, exactly when the slide has a key_takeaway field, by a
\* blank spacer paragraph and then the key_takeaway line; without the field
\* the content line is the whole body.
C23_TakeawayBringsSpacer ==
    RenderRanOnSlides =>
        \A i \in RenderedOfType("conclusion_slide") :
            LET body == res.out.rendered[i].body
            IN  /\ ParaTexts(body)
                     = <<ContentLine(SlidesOut[i])>>
                       \o (IF "key_takeaway" \in DOMAIN SlidesOut[i]
                           THEN <<SpacerLine, TakeawayLine(SlidesOut[i])>> ELSE <<>>)
                /\ body[1].role = "conclusion"
                /\ Len(body) = 3 => (body[2].role = "spacer" /\ body[3].role = "key_takeaway")

\* a deck was rendered whole with a conclusion slide that has content and no
\* key_takeaway: its body is the content line alone
C23_Witness ==
    /\ RenderRanOnSlides
    /\ res.out.exc = "none"
    /\ \E i \in RenderedOfType("conclusion_slide") :
          /\ "key_takeaway" \notin DOMAIN SlidesOut[i]
          /\ "content" \in DOMAIN SlidesOut[i]
          /\ ParaTexts(res.out.rendered[i].body) = << <<SlidesOut[i].content>> >>

----------------------------------------------------------------------------
(* The claims about whole turns, under Spec.                               *)

\* the generator returned an object without an "error" key in this turn:
\* process_ppt_request went on to create_powerpoint
RenderedThisTurn == Did("render")

\* C24: in a turn whose generator returned a JSON object without an error
\* key, whatever the object lacks (slides, title, a slide's type, title or
\* points), process_ppt_request raises nothing and returns a reply, and the
\* turn ends with its assistant message recorded.
C24_NoFaultFromParsedOutput ==
    RenderedThisTurn =>
        /\ fault = NoFault
        /\ pc \in {"speak", "idle"}
        /\ turn.reply.kind = "ppt_ready"
        /\ pc = "idle" => TurnRecorded

\* the roles of the history alternate, user first
Alternates(history) ==
    \A i \in 1..Len(history) :
        history[i].role = (IF i % 2 = 1 THEN "user" ELSE "assistant")

\* C25: through every sequence of text and voice turns, successful or
\* failed, the history only grows at its end, and its messages alternate
\* user, assistant, user, assistant, ... starting with user: one assistant
\* message follows each user message before the next user message.
C25_HistoryAlternates ==
    /\ [][IsPrefix(messages, messages')]_vars
    /\ [](Alternates(messages))

\* the role and content of each message of a history
RoleAndContent(history) ==
    [i \in 1..Len(history) |-> [role |-> history[i].role, content |-> history[i].content]]

\* the user message of the turn's query, as sent to the chat model
QueryMessage == [role |-> "user", content |-> [kind |-> "user_text", text |-> turn.user_input]]

\* the number of messages equal to m at the end of list
RECURSIVE TrailingCopies(_, _)
TrailingCopies(list, m) ==
    IF list = <<>> \/ list[Len(list)] # m THEN 0
    ELSE 1 + TrailingCopies(SubSeq(list, 1, Len(list) - 1), m)

\* C26: process_chat_query leaves the stored history as it was, and the list
\* it sends is the stored history, role and content only, with the query
\* appended unless the last stored message is that user message already; the
\* list ends with exactly one user message of the query, never two in a row.
C26_QuerySentOnce ==
    [][pc = "chat" =>
          /\ messages' = messages
          /\ sent' = IF messages # <<>> /\ RoleAndContent(messages)[Len(messages)] = QueryMessage
                     THEN RoleAndContent(messages)
                     ELSE Append(RoleAndContent(messages), QueryMessage)
          /\ TrailingCopies(sent', QueryMessage) = 1]_vars

\* the same without the count of the copies at the end of the list
C26_SentIsHistory ==
    [][pc = "chat" =>
          /\ messages' = messages
          /\ sent' = IF messages # <<>> /\ RoleAndContent(messages)[Len(messages)] = QueryMessage
                     THEN RoleAndContent(messages)
                     ELSE Append(RoleAndContent(messages), QueryMessage)]_vars

\* the username is known and the password is the one stored for it
ValidCredentials(username, password) ==
    username \in DOMAIN USER_CREDENTIALS /\ USER_CREDENTIALS[username] = password

\* C27: the authentication flag starts false, turns true only in a login
\* with a username of USER_CREDENTIALS and its password, and never turns
\* false again; while it is false no message is appended, no turn is under
\* way and no classify, generate, chat or speech call is made.
C27_LoginGatesTurns ==
    /\ [](~authenticated =>
            /\ messages = <<>>
            /\ calls = NoCalls
            /\ events = <<>>
            /\ pc = "idle")
    /\ [][/\ authenticated => authenticated'
          /\ ~authenticated => (messages' = messages /\ calls' = calls /\ pc' = pc)
          /\ (~authenticated /\ authenticated') =>
                \E u \in Usernames, p \in Passwords : ValidCredentials(u, p) /\ Login(u, p)
          /\ \A u \in Usernames, p \in Passwords :
                (Login(u, p) /\ ~ValidCredentials(u, p)) => ~authenticated']_vars

\* a turn has run to its end after a login
C27_Witness ==
    /\ authenticated
    /\ pc = "idle"
    /\ TurnRecorded
    /\ calls.classify + calls.chat + calls.generate + calls.speech > 0

----------------------------------------------------------------------------
(* The claim about the languages of the multilingual variant, under Spec.  *)

\* the keys of the dict INDIAN_LANGUAGES
LanguageKeys == {INDIAN_LANGUAGES[i] : i \in 1..Len(INDIAN_LANGUAGES)}

\* outcomes of the detection call with the language the claim gives each:
\* an exact key, a key in another case, a key with punctuation, a word that
\* is no key, an empty and a blank answer, and the failures of the call
DetectCases ==
    {<<Text(<<84, 97, 109, 105, 108>>), "Tamil">>,             \* 'Tamil'
     <<Text(<<85, 82, 68, 85>>), "Urdu">>,                     \* 'URDU'
     <<Text(<<104, 105, 110, 100, 105, 46>>), "Hindi">>,       \* 'hindi.'
     <<Text(<<70, 114, 101, 110, 99, 104>>), "English">>,      \* 'French'
     <<Text(<<>>), "English">>,                                \* ''
     <<Text(<<32>>), "English">>}                              \* ' '
    \cup {<<r, "English">> : r \in RemoteFailures}

\* detect_language returns the language of each case, a key
DetectCasesHold ==
    \A c \in DetectCases :
        /\ detect_language(c[1]).lang = c[2]
        /\ c[2] \in LanguageKeys

----------------------------------------------------------------------------
(* The claim about topic extraction, under Spec.                           *)

\* the turn was classified ppt_generation and is past the topic extraction
\* and the generator call of process_ppt_request
PastGenerate == turn.intent = "ppt_generation" /\ pc # "generate"

\* C29: for every non-empty input classified ppt_generation, also one whose
\* text after the trigger phrase is empty or blank, topic extraction raises
\* nothing and the generator is called exactly once, with the topic
\* extracted.
C29_TopicExtractionCompletes ==
    (PastGenerate /\ turn.user_input # <<>>) =>
        /\ fault.at # "format_topic"
        /\ Did("generate")
        /\ calls.generate = 1

----------------------------------------------------------------------------
(* The claim about the shape of the extracted text, under SpecExtract.     *)

\* what json.loads would make of the extracted text, were there one
AnyLoads == {[ok |-> FALSE, msg |-> JsonErrorMessage],
             [ok |-> TRUE, value |-> [title |-> "T", slides |-> <<>>]]}

\* C30: a result of extract_json that is not None begins with '{' and ends
\* with '}'; for a text in which no '{' has a '}' somewhere after it ('{'
\* never closed, or '}' before the first '{' only) the result is None, and
\* the generator reports the no-JSON-found error for an answer with that
\* text.
C30_BracesOrNone ==
    ExtractRan =>
        /\ ~res.out.is_none =>
              /\ Len(res.out.str) >= 2
              /\ res.out.str[1] = OpenBrace
              /\ res.out.str[Len(res.out.str)] = CloseBrace
        /\ ~HasBraceSpan(arg.text) =>
              /\ res.out = None
              /\ \A l \in AnyLoads :
                    generate_presentation_content(GeneratorResponse(arg.text, l)).data
                        = [error |-> NoJsonMessage]

\* extract_json ran on a text with both braces, each '}' before the '{', and
\* returned None
C30_Witness ==
    /\ ExtractRan
    /\ OpenBraces(arg.text) # {}
    /\ CloseBraces(arg.text) # {}
    /\ ~HasBraceSpan(arg.text)
    /\ res.out = None
====
